---- MODULE Spec2Model ----
(***************************************************************************)
(* A model of instagram_extractor.py: one run of main() (login, username   *)
(* prompt, extract_user_data, generate_csv_reports, console summary), with *)
(* the platform client, the HTTP transport, the filesystem and the         *)
(* operator's interrupt as the environment.  Every call into the           *)
(* environment either returns or raises; what it raises decides which      *)
(* handler of the script catches it.                                       *)
(***************************************************************************)
EXTENDS Integers, Sequences, FiniteSets, TLC

\* ------------------------------------------------------------------ bounds
\* Most media items the client returns for one account.
MaxMedia == 2
\* Most accounts the client returns in a followers / following mapping.
MaxRel == 2
\* Most direct calls of generate_csv_reports in the report-generator harness.
MaxCalls == 2

\* ------------------------------------------------------------- environment
None == "None"

\* What a session file at SESSION_FILE is to the client: not there; there but
\* load_settings raises on it; loaded but client.login with it raises;
\* loaded and client.login with it returns.
SessionStates == {"absent", "unreadable", "rejected", "valid"}

\* What client.login(username, password) of the fresh path does.
AuthOutcomes ==
  {"ok", "BadPassword", "ReloginAttemptExceeded", "ChallengeRequired", "Exception"}

\* Values of the DOWNLOAD_PHOTOS / DOWNLOAD_VIDEOS environment variables.
EnvValues == {"unset", "TRUE", "false"}

\* str.lower() on the values above.
Lower(s) ==
  CASE s = "TRUE" -> "true"
    [] OTHER -> s

\* os.getenv(name, default)
GetEnv(v, default) == IF v = "unset" THEN default ELSE v

\* os.getenv(X, 'true').lower() == 'true'
Toggle(v) == Lower(GetEnv(v, "true")) = "true"

\* Lines the operator may type at the prompt, as character sequences.
RawInputs == {<< >>, <<" ">>, <<"a">>, <<" ", "a", " ">>}

RECURSIVE LStrip(_)
LStrip(s) == IF s # << >> /\ Head(s) = " " THEN LStrip(Tail(s)) ELSE s

RECURSIVE RStrip(_)
RStrip(s) ==
  IF s # << >> /\ s[Len(s)] = " " THEN RStrip(SubSeq(s, 1, Len(s) - 1)) ELSE s

\* str.strip()
Strip(s) == RStrip(LStrip(s))

\* The kinds of media item: media_type 1 (photo), 2 (video) with and without
\* a video_url attribute, 8 (album: neither branch downloads).
MediaKinds ==
  { [media_type |-> 1, has_video_url |-> FALSE],
    [media_type |-> 2, has_video_url |-> TRUE],
    [media_type |-> 2, has_video_url |-> FALSE],
    [media_type |-> 8, has_video_url |-> FALSE] }

SeqsUpTo(S, n) == UNION { [1..k -> S] : k \in 0..n }

\* The answers of client.user_medias: item i carries id i.
MediaLists ==
  { [i \in DOMAIN ks |-> [id |-> i, media_type |-> ks[i].media_type,
                          has_video_url |-> ks[i].has_video_url]] :
      ks \in SeqsUpTo(MediaKinds, MaxMedia) }

\* The answers of client.user_followers / user_following: a mapping whose
\* iteration order is the platform's, here pk n, n-1, ..., 1.
RelLists == { [i \in 1..n |-> [pk |-> n - i + 1]] : n \in 0..MaxRel }

\* A client call returns its items or raises.
Raised == [ok |-> FALSE, items |-> << >>]

Answers(lists) == { [ok |-> TRUE, items |-> l] : l \in lists } \cup {Raised}

\* How requests.get + the chunked write of download_media may end.
DownloadOutcomes == {"ok", "http_error", "write_error"}

\* How one open(..., 'w') + write may end: written; open raises (the file is
\* left as it was); the write raises after open truncated the file.
WriteOutcomes == {"ok", "open_error", "write_error"}

Categories == <<"posts", "followers", "following">>

\* ------------------------------------------------------------------- state
VARIABLES
  pc,            \* where main() (or the harness) stands
  console,       \* what main() printed last
  dlPhotos,      \* DOWNLOAD_PHOTOS as set in the environment
  dlVideos,      \* DOWNLOAD_VIDEOS as set in the environment
  sessionFile,   \* the session file on disk, as the client sees it
  authCalls,     \* client.login calls made by login()
  sessionWrites, \* client.dump_settings calls that wrote the session file
  loginPath,     \* the path login() returned from
  loginLog,      \* the last message login() logged
  freshAuth,     \* how the fresh path's client.login ended
  loginResult,   \* login()'s return value
  target,        \* target_username
  userInfo,      \* get_user_info's return value
  medias,        \* client.user_medias' answer
  idx,           \* the for loop's position in medias
  postsData,     \* posts_data
  postsResult,   \* get_user_posts' return value
  postsFailed,   \* whether get_user_posts took its except branch
  downloads,     \* download_media calls: [id, ext, ok]
  mediaFiles,    \* files under media/: [id, ext, state]
  clientRel,     \* the client's answers for followers and following
  relResult,     \* get_followers' and get_following's return values
  stageLog,      \* the fetch stages extract_user_data has called, in order
  stageFailed,   \* the stages that took their except branch
  data,          \* extract_user_data's return value
  jsonFile,      \* json_data/{username}_data.json
  jsonWrites,    \* opens of the JSON document for writing
  csvFiles,      \* the CSV file of each category
  csvWrites,     \* the to_csv calls of the current generate_csv_reports call
  csvCalls,      \* generate_csv_reports calls made
  prevCall,      \* the to_csv calls of the call before, and the files it left
  summary        \* the counts main() printed

vars ==
  << pc, console, dlPhotos, dlVideos, sessionFile, authCalls, sessionWrites,
     loginPath, loginLog, freshAuth, loginResult, target, userInfo, medias, idx,
     postsData, postsResult, postsFailed, downloads, mediaFiles, clientRel,
     relResult,     stageLog, stageFailed, data, jsonFile, jsonWrites, csvFiles, csvWrites,
     csvCalls, prevCall, summary >>

loginVars ==
  << sessionFile, authCalls, sessionWrites, loginPath, loginLog, freshAuth,
     loginResult >>

postsVars ==
  << medias, idx, postsData, postsResult, postsFailed, downloads, mediaFiles >>

extractVars ==
  << userInfo, clientRel, relResult, stageLog, stageFailed, data, jsonFile, jsonWrites >>

csvVars == << csvFiles, csvWrites, csvCalls, prevCall >>

envVars == << dlPhotos, dlVideos >>

\* ------------------------------------------------------------------- login
\* LoginSession without the return of line 73: a session login that worked
\* falls through to the fresh login.
LoginSessionFallThrough ==
  /\ pc = "login"
  /\ UNCHANGED << console, envVars, target, postsVars, extractVars, csvVars,
                  summary, sessionFile, sessionWrites, freshAuth, loginPath,
                  loginResult >>
  /\ pc' = "login_fresh"
  /\ authCalls' = IF sessionFile \in {"rejected", "valid"} THEN authCalls + 1
                                                           ELSE authCalls
  /\ loginLog' = IF sessionFile = "valid" THEN "Logged in using existing session"
                                          ELSE "Failed to load session"

\* login(), lines 67-75: the attempt with the existing session file.
LoginSession ==
  /\ pc = "login"
  /\ UNCHANGED << console, envVars, target, postsVars, extractVars, csvVars,
                  summary, sessionFile, sessionWrites, freshAuth >>
  /\ CASE sessionFile = "absent" ->
            /\ pc' = "login_fresh"
            /\ UNCHANGED << authCalls, loginPath, loginLog, loginResult >>
       [] sessionFile = "unreadable" ->
            /\ pc' = "login_fresh"
            /\ loginLog' = "Failed to load session"
            /\ UNCHANGED << authCalls, loginPath, loginResult >>
       [] sessionFile = "rejected" ->
            /\ pc' = "login_fresh"
            /\ authCalls' = authCalls + 1
            /\ loginLog' = "Failed to load session"
            /\ UNCHANGED << loginPath, loginResult >>
       [] sessionFile = "valid" ->
            /\ pc' = "login_returned"
            /\ authCalls' = authCalls + 1
            /\ loginLog' = "Logged in using existing session"
            /\ loginPath' = "session"
            /\ loginResult' = TRUE

\* login(), lines 77-93: the fresh login, one call of client.login and, when
\* it returns, one of client.dump_settings; whatever either raises is logged
\* by the except clause that matches and login() returns False.
LoginFresh ==
  /\ pc = "login_fresh"
  /\ UNCHANGED << console, envVars, target, postsVars, extractVars, csvVars,
                  summary >>
  /\ pc' = "login_returned"
  /\ authCalls' = authCalls + 1
  /\ loginPath' = "fresh"
  /\ \E auth \in AuthOutcomes, dump \in {"ok", "error"} :
       /\ freshAuth' = auth
       /\ IF auth = "ok" /\ dump = "ok"
            THEN /\ sessionFile' = "valid"
                 /\ sessionWrites' = sessionWrites + 1
                 /\ loginLog' = "Successfully logged in with fresh session"
                 /\ loginResult' = TRUE
            ELSE /\ UNCHANGED << sessionFile, sessionWrites >>
                 /\ loginResult' = FALSE
                 /\ loginLog' =
                      CASE auth = "BadPassword" -> "Invalid username or password"
                        [] auth = "ReloginAttemptExceeded" -> "Too many login attempts"
                        [] auth = "ChallengeRequired" -> "Challenge required"
                        [] auth = "Exception" -> "Login failed"
                        [] OTHER -> "Login failed: dump_settings"

\* main(), lines 301-303.
MainAfterLogin ==
  /\ pc = "login_returned"
  /\ UNCHANGED << envVars, loginVars, target, postsVars, extractVars, csvVars,
                  summary >>
  /\ IF loginResult
       THEN pc' = "prompt" /\ UNCHANGED console
       ELSE pc' = "done" /\ console' = "Failed to login. Please check your credentials."

\* main(), lines 306-310.
Prompt ==
  /\ pc = "prompt"
  /\ UNCHANGED << envVars, loginVars, postsVars, extractVars, csvVars, summary >>
  /\ \E raw \in RawInputs :
       /\ target' = Strip(raw)
       /\ IF Strip(raw) = << >>
            THEN pc' = "done" /\ console' = "No username provided."
            ELSE pc' = "extract" /\ UNCHANGED console

\* ----------------------------------------------------------- get_user_info
ProfileFields ==
  { "pk", "username", "full_name", "biography", "external_url",
    "follower_count", "following_count", "media_count", "is_private",
    "is_verified", "profile_pic_url", "extracted_at" }

\* get_user_info, lines 102-115: the serializable profile.
Profile(username) ==
  [f \in ProfileFields |-> IF f = "username" THEN username ELSE "value"]

\* Python's {} and, for a value that is a dict or None, None: both are falsy.
EmptyDict == << >>

Falsy(d) == DOMAIN d = {}

\* A local variable no statement has assigned yet.
Unbound == [unbound |-> TRUE]

\* ExtractProfile without the check of lines 253-254: an absent profile
\* does not end the extraction.
ExtractProfileNoCheck ==
  /\ pc = "extract"
  /\ UNCHANGED << console, envVars, loginVars, target, postsVars, clientRel,
                  relResult, stageLog, stageFailed, data, jsonFile, jsonWrites,
                  csvVars, summary >>
  /\ pc' = "posts"
  /\ \E fetched \in BOOLEAN :
       userInfo' = IF fetched THEN Profile(target) ELSE EmptyDict

\* extract_user_data, lines 249-254, with get_user_info, lines 97-122: the
\* profile fetch; absent ends the extraction with {}.
ExtractProfile ==
  /\ pc = "extract"
  /\ UNCHANGED << console, envVars, loginVars, target, postsVars, clientRel, relResult,
                  stageLog, stageFailed, jsonFile, jsonWrites, csvVars, summary >>
  /\ \E fetched \in BOOLEAN :
       IF fetched
         THEN /\ userInfo' = Profile(target)
              /\ pc' = "posts"
              /\ UNCHANGED data
         ELSE /\ userInfo' = EmptyDict
              /\ data' = EmptyDict
              /\ pc' = "extract_returned"

\* ---------------------------------------------------------- get_user_posts
\* download_media, lines 126-139: the files under media/ after the call.
DownloadFiles(files, id, ext, outcome) ==
  CASE outcome = "ok" ->
         { f \in files : ~(f.id = id /\ f.ext = ext) }
           \cup { [id |-> id, ext |-> ext, state |-> "complete"] }
    [] outcome \in {"write_error", "interrupt"} ->
         { f \in files : ~(f.id = id /\ f.ext = ext) }
           \cup { [id |-> id, ext |-> ext, state |-> "partial"] }
    [] OTHER -> files

\* download_media's return value.
DownloadMedia(outcome) == outcome = "ok"

\* The extension get_user_posts downloads for a media item, None when neither
\* branch of lines 166-176 calls download_media for it.
DownloadExt(media, photos, videos) ==
  CASE Toggle(photos) /\ media.media_type = 1 -> "jpg"
    [] Toggle(videos) /\ media.media_type = 2 /\ media.has_video_url -> "mp4"
    [] OTHER -> None

\* PostData with local_file set whatever download_media returned.
PostDataAlways(media, ext, downloaded) ==
  LET post_data == [id |-> media.id, media_type |-> media.media_type]
  IN IF ext # None
       THEN [k \in DOMAIN post_data \cup {"local_file"} |->
               IF k = "local_file" THEN ext ELSE post_data[k]]
       ELSE post_data

\* Lines 152-163 and 170 / 176: the Post record; the local_file key is added
\* when the download returned True.
PostData(media, ext, downloaded) ==
  LET post_data == [id |-> media.id, media_type |-> media.media_type]
  IN IF ext # None /\ downloaded
       THEN [k \in DOMAIN post_data \cup {"local_file"} |->
               IF k = "local_file" THEN ext ELSE post_data[k]]
       ELSE post_data

\* get_user_posts, lines 144-147: resolve the username and request the media.
PostsRequest ==
  /\ pc = "posts"
  /\ UNCHANGED << console, envVars, loginVars, target, userInfo, clientRel, relResult,
                  data, jsonFile, jsonWrites, csvVars, summary, downloads,
                  mediaFiles, postsData >>
  /\ stageLog' = Append(stageLog, "posts")
  /\ \E answer \in Answers(MediaLists) :
       IF ~answer.ok
         THEN /\ postsFailed' = TRUE
              /\ postsResult' = << >>
              /\ stageFailed' = stageFailed \cup {"posts"}
              /\ pc' = "followers"
              /\ UNCHANGED << medias, idx >>
         ELSE /\ medias' = answer.items
              /\ idx' = 1
              /\ pc' = "posts_item"
              /\ UNCHANGED << postsFailed, postsResult, stageFailed >>

\* PostsReturn with the except branch returning what the loop had built.
PostsReturnPartial(failed, posts) == posts

\* get_user_posts, lines 180-185: the value returned after the loop or from
\* the except branch.
PostsReturn(failed, posts) == IF failed THEN << >> ELSE posts

\* get_user_posts, lines 149-185: one iteration of the loop, or the return
\* after the last one.  Building the record may raise (the except branch);
\* an interrupt inside download_media leaves what was written.
PostsItem ==
  /\ pc = "posts_item"
  /\ UNCHANGED << envVars, loginVars, target, userInfo, clientRel, relResult, stageLog,
                  data, jsonFile, jsonWrites, csvVars, summary, medias >>
  /\ IF idx > Len(medias)
       THEN /\ postsResult' = PostsReturn(FALSE, postsData)
            /\ pc' = "followers"
            /\ UNCHANGED << console, idx, postsData, postsFailed, downloads,
                            mediaFiles, stageFailed >>
       ELSE \E built \in BOOLEAN :
              LET media == medias[idx]
                  ext == DownloadExt(media, dlPhotos, dlVideos)
              IN IF ~built
                   THEN /\ postsFailed' = TRUE
                        /\ postsResult' = PostsReturn(TRUE, postsData)
                        /\ stageFailed' = stageFailed \cup {"posts"}
                        /\ pc' = "followers"
                        /\ UNCHANGED << console, idx, postsData, downloads,
                                        mediaFiles >>
                   ELSE IF ext = None
                     THEN /\ postsData' = Append(postsData, PostData(media, ext, FALSE))
                          /\ idx' = idx + 1
                          /\ UNCHANGED << pc, console, postsResult, postsFailed,
                                          downloads, mediaFiles, stageFailed >>
                     ELSE \E outcome \in DownloadOutcomes \cup {"interrupt"} :
                            /\ mediaFiles' = DownloadFiles(mediaFiles, media.id, ext, outcome)
                            /\ UNCHANGED << postsResult, postsFailed, stageFailed >>
                            /\ IF outcome = "interrupt"
                                 THEN /\ pc' = "KeyboardInterrupt"
                                      /\ UNCHANGED << console, idx, postsData,
                                                      downloads >>
                                 ELSE /\ downloads' = downloads \cup
                                           { [id |-> media.id, ext |-> ext,
                                              ok |-> DownloadMedia(outcome)] }
                                      /\ postsData' = Append(postsData,
                                           PostData(media, ext, DownloadMedia(outcome)))
                                      /\ idx' = idx + 1
                                      /\ UNCHANGED << pc, console >>


\* --------------------------------------------- get_followers, get_following
\* Lines 197-206 / 227-236: the RelationshipEntry of one account.
RelEntry(info) == [pk |-> info.pk]

\* Lines 193-215 / 223-245: the list built from the client's mapping, in the
\* mapping's order; the except branch returns [].
RelReturn(answer) ==
  IF ~answer.ok THEN << >>
  ELSE [i \in DOMAIN answer.items |-> RelEntry(answer.items[i])]

\* One stage of lines 260-261: get_followers or get_following.
RelStage(stage, here, next) ==
  /\ pc = here
  /\ UNCHANGED << console, envVars, loginVars, target, userInfo, postsVars,
                  data, jsonFile, jsonWrites, csvVars, summary >>
  /\ stageLog' = Append(stageLog, stage)
  /\ pc' = next
  /\ \E answer \in Answers(RelLists) :
       /\ clientRel' = [clientRel EXCEPT ![stage] = answer]
       /\ relResult' = [relResult EXCEPT ![stage] = RelReturn(answer)]
       /\ stageFailed' = IF answer.ok THEN stageFailed
                                    ELSE stageFailed \cup {stage}

GetFollowers == RelStage("followers", "followers", "following")

GetFollowing == RelStage("following", "following", "json")
\* ------------------------------------------------------- extract_user_data
JsonKeys == <<"user_info", "posts", "followers", "following", "extraction_timestamp">>

\* json.dump of a dict: its key/value pairs in insertion order.
JsonDump(d) == [i \in DOMAIN JsonKeys |-> [key |-> JsonKeys[i], value |-> d[JsonKeys[i]]]]

\* json.load of a document written by JsonDump.
JsonLoad(doc) ==
  [k \in { doc[i].key : i \in DOMAIN doc } |->
     doc[CHOOSE i \in DOMAIN doc : doc[i].key = k].value]

\* The file after open(path, 'w') + one write of `content`.
WriteFile(file, content, outcome) ==
  CASE outcome = "ok" -> [state |-> "complete", content |-> content]
    [] outcome = "open_error" -> file
    [] OTHER -> [state |-> "truncated", content |-> << >>]

NoFile == [state |-> "absent", content |-> << >>]

\* ExtractedData with the following list taken from get_followers.
ExtractedDataSwapped(user_info, posts, followers, following) ==
  [k \in { JsonKeys[i] : i \in DOMAIN JsonKeys } |->
     CASE k = "user_info" -> user_info
       [] k = "posts" -> posts
       [] k = "followers" -> followers
       [] k = "following" -> followers
       [] OTHER -> <<"now">>]

\* extract_user_data, lines 257-263.
ExtractedData(user_info, posts, followers, following) ==
  [k \in { JsonKeys[i] : i \in DOMAIN JsonKeys } |->
     CASE k = "user_info" -> user_info
       [] k = "posts" -> posts
       [] k = "followers" -> followers
       [] k = "following" -> following
       [] OTHER -> <<"now">>]

\* extract_user_data, lines 257-271: assemble the result, write the JSON
\* document, return the result.  What open or json.dump raises is not caught
\* here: it leaves extract_user_data for main()'s try block.
WriteJson ==
  /\ pc = "json"
  /\ UNCHANGED << console, envVars, loginVars, target, userInfo, postsVars,
                  clientRel, relResult, stageLog, stageFailed, csvVars, summary >>
  /\ \E outcome \in WriteOutcomes \cup {"interrupt"} :
       LET extracted_data ==
             ExtractedData(userInfo, postsResult, relResult["followers"],
                           relResult["following"])
       IN /\ jsonFile' = WriteFile(jsonFile, JsonDump(extracted_data), outcome)
          /\ jsonWrites' = IF outcome = "open_error" THEN jsonWrites ELSE jsonWrites + 1
          /\ IF outcome = "ok"
               THEN data' = extracted_data /\ pc' = "extract_returned"
               ELSE /\ UNCHANGED data
                    /\ pc' = IF outcome = "interrupt" THEN "KeyboardInterrupt"
                                                      ELSE "Exception"

\* main(), lines 314-316 and 326-327.
MainAfterExtract ==
  /\ pc = "extract_returned"
  /\ UNCHANGED << envVars, loginVars, target, postsVars, extractVars, csvVars,
                  summary >>
  /\ IF Falsy(data)
       THEN pc' = "done" /\ console' = "Failed to extract data. Check logs for details."
       ELSE pc' = "csv" /\ UNCHANGED console

\* ---------------------------------------------------- generate_csv_reports
\* data.get(key) is truthy: the key is there and its list is not empty.
Truthy(d, key) == key \in DOMAIN d /\ Len(d[key]) > 0

\* len(data.get(key, []))
LenOf(d, key) == IF key \in DOMAIN d THEN Len(d[key]) ELSE 0

\* pd.DataFrame(rows).to_csv(path, index=False): a header of the rows' keys
\* and one line per row.
ToCsv(rows) ==
  [header |-> UNION { DOMAIN rows[i] : i \in DOMAIN rows }, lines |-> rows]

\* ToCsvFile opening the file in append mode.
ToCsvFileAppend(file, rows, outcome) ==
  CASE outcome = "ok" /\ file.state = "complete" ->
         [state |-> "complete",
          content |-> [header |-> file.content.header \cup ToCsv(rows).header,
                       lines |-> file.content.lines \o rows]]
    [] outcome = "ok" -> [state |-> "complete", content |-> ToCsv(rows)]
    [] OTHER -> file

\* Lines 278-279 / 283-284 / 288-289: the category's file after to_csv.
ToCsvFile(file, rows, outcome) == WriteFile(file, ToCsv(rows), outcome)

\* CsvExcept with no except clause: what a write raises leaves the call.
CsvExceptNothing(raised) == raised

\* The except clause of lines 293-294 catches Exception and nothing else.
CsvExcept(raised) == IF raised = "Exception" THEN "none" ELSE raised

\* CsvFrom with one try block per category: a failed write does not stop
\* the categories after it.
RECURSIVE CsvFromEach(_, _, _, _)
CsvFromEach(i, st, d, outcomes) ==
  IF i > Len(Categories) THEN st
  ELSE LET cat == Categories[i] IN
    IF ~Truthy(d, cat) THEN CsvFromEach(i + 1, st, d, outcomes)
    ELSE LET after ==
               [ files |-> [st.files EXCEPT
                              ![cat] = ToCsvFile(@, d[cat], outcomes[i])],
                 writes |-> Append(st.writes, [cat |-> cat, outcome |-> outcomes[i]]),
                 raised |-> IF outcomes[i] = "interrupt" THEN "KeyboardInterrupt"
                                                         ELSE "none" ]
         IN IF after.raised = "none" THEN CsvFromEach(i + 1, after, d, outcomes)
            ELSE after

\* Lines 276-289 from category i on: a category whose list is truthy is
\* written; the first write that raises ends the try block.
RECURSIVE CsvFrom(_, _, _, _)
CsvFrom(i, st, d, outcomes) ==
  IF i > Len(Categories) THEN st
  ELSE LET cat == Categories[i] IN
    IF ~Truthy(d, cat) THEN CsvFrom(i + 1, st, d, outcomes)
    ELSE LET after ==
               [ files |-> [st.files EXCEPT
                              ![cat] = ToCsvFile(@, d[cat], outcomes[i])],
                 writes |-> Append(st.writes, [cat |-> cat, outcome |-> outcomes[i]]),
                 raised |-> CASE outcomes[i] = "ok" -> "none"
                              [] outcomes[i] = "interrupt" -> "KeyboardInterrupt"
                              [] OTHER -> "Exception" ]
         IN IF after.raised = "none" THEN CsvFrom(i + 1, after, d, outcomes)
            ELSE after

\* generate_csv_reports, lines 275-294: one call, under the write outcomes
\* the filesystem gives the three categories.
CsvReports(files, d, outcomes) ==
  LET tried == CsvFrom(1, [files |-> files, writes |-> << >>, raised |-> "none"],
                       d, outcomes)
  IN [tried EXCEPT !.raised = CsvExcept(tried.raised)]

GenerateCsvReports ==
  /\ pc = "csv"
  /\ UNCHANGED << console, envVars, loginVars, target, postsVars, extractVars,
                  summary >>
  /\ \E outcomes \in [DOMAIN Categories -> WriteOutcomes \cup {"interrupt"}] :
       LET r == CsvReports(csvFiles, data, outcomes)
       IN /\ csvFiles' = r.files
          /\ csvWrites' = r.writes
          /\ csvCalls' = csvCalls + 1
          /\ prevCall' = [called |-> csvCalls > 0, writes |-> csvWrites,
                           files |-> csvFiles]
          /\ pc' = IF r.raised = "none" THEN "csv_returned" ELSE r.raised

\* main(), lines 320-325.
Summary ==
  /\ pc = "csv_returned"
  /\ UNCHANGED << envVars, loginVars, target, postsVars, extractVars, csvVars >>
  /\ pc' = "done"
  /\ console' = "Data extraction completed"
  /\ summary' = [ printed |-> TRUE,
                  user_info |-> IF "user_info" \in DOMAIN data
                                  THEN Cardinality(DOMAIN data["user_info"]) ELSE 0,
                  posts |-> LenOf(data, "posts"),
                  followers |-> LenOf(data, "followers"),
                  following |-> LenOf(data, "following") ]

\* main(), lines 329-332: the except clauses of the try block.
MainExcept ==
  /\ pc \in {"KeyboardInterrupt", "Exception"}
  /\ UNCHANGED << envVars, loginVars, target, postsVars, extractVars, csvVars,
                  summary >>
  /\ pc' = "done"
  /\ console' = IF pc = "KeyboardInterrupt" THEN "Extraction interrupted by user."
                                            ELSE "An error occurred"

\* Where main() stands inside its try block (lines 312-327).
InTry ==
  pc \in {"extract", "posts", "posts_item", "followers", "following", "json",
          "extract_returned", "csv", "csv_returned"}

\* An interrupt delivered while main() is not inside a file write: inside
\* the try block it reaches the except clauses, before it (login, prompt)
\* nothing catches it and the interpreter prints the traceback.
Interrupt ==
  /\ pc \in {"login", "login_fresh", "login_returned", "prompt"} \/ InTry
  /\ UNCHANGED << envVars, loginVars, target, postsVars, extractVars, csvVars,
                  summary >>
  /\ IF InTry
       THEN pc' = "KeyboardInterrupt" /\ UNCHANGED console
       ELSE pc' = "done" /\ console' = "Traceback: KeyboardInterrupt"

\* ------------------------------------------------------------ specification
NoFiles == [c \in { Categories[i] : i \in DOMAIN Categories } |-> NoFile]

Init ==
  /\ pc = "login"
  /\ console = ""
  /\ dlPhotos \in EnvValues
  /\ dlVideos \in EnvValues
  /\ sessionFile \in SessionStates
  /\ authCalls = 0
  /\ sessionWrites = 0
  /\ loginPath = "none"
  /\ loginLog = ""
  /\ freshAuth = "none"
  /\ loginResult = FALSE
  /\ target = << >>
  /\ userInfo = Unbound
  /\ medias = << >>
  /\ idx = 0
  /\ postsData = << >>
  /\ postsResult = << >>
  /\ postsFailed = FALSE
  /\ downloads = {}
  /\ mediaFiles = {}
  /\ clientRel = [followers |-> Raised, following |-> Raised]
  /\ relResult = [followers |-> << >>, following |-> << >>]
  /\ stageLog = << >>
  /\ stageFailed = {}
  /\ data = Unbound
  /\ jsonFile = NoFile
  /\ jsonWrites = 0
  /\ csvFiles = NoFiles
  /\ csvWrites = << >>
  /\ csvCalls = 0
  /\ prevCall = [called |-> FALSE, writes |-> << >>, files |-> NoFiles]
  /\ summary = [printed |-> FALSE, user_info |-> 0, posts |-> 0, followers |-> 0,
                following |-> 0]

Next ==
  \/ LoginSession
  \/ LoginFresh
  \/ MainAfterLogin
  \/ Prompt
  \/ ExtractProfile
  \/ PostsRequest
  \/ PostsItem
  \/ GetFollowers
  \/ GetFollowing
  \/ WriteJson
  \/ MainAfterExtract
  \/ GenerateCsvReports
  \/ Summary
  \/ MainExcept
  \/ Interrupt

\* One run of main().
Spec == Init /\ [][Next]_vars

\* main() up to the end of login(): lines 298-303.
NextLogin ==
  \/ LoginSession
  \/ LoginFresh
  \/ MainAfterLogin
  \/ Interrupt

SpecLogin == Init /\ [][NextLogin]_vars

\* The state of main() once login() has returned True with a reused session
\* and the download toggles are as the environment leaves them.
LoggedIn(photos, videos) ==
  /\ console = ""
  /\ dlPhotos = photos
  /\ dlVideos = videos
  /\ sessionFile = "valid"
  /\ authCalls = 1
  /\ sessionWrites = 0
  /\ loginPath = "session"
  /\ loginLog = "Logged in using existing session"
  /\ freshAuth = "none"
  /\ loginResult = TRUE
  /\ medias = << >>
  /\ idx = 0
  /\ postsData = << >>
  /\ postsResult = << >>
  /\ postsFailed = FALSE
  /\ downloads = {}
  /\ mediaFiles = {}
  /\ clientRel = [followers |-> Raised, following |-> Raised]
  /\ relResult = [followers |-> << >>, following |-> << >>]
  /\ stageLog = << >>
  /\ stageFailed = {}
  /\ jsonFile = NoFile
  /\ jsonWrites = 0
  /\ csvFiles = NoFiles
  /\ csvWrites = << >>
  /\ csvCalls = 0
  /\ prevCall = [called |-> FALSE, writes |-> << >>, files |-> NoFiles]
  /\ summary = [printed |-> FALSE, user_info |-> 0, posts |-> 0, followers |-> 0,
                following |-> 0]

\* main() from the prompt on (lines 306-332), downloads left at their
\* defaults.
InitRun ==
  /\ pc = "prompt"
  /\ target = << >>
  /\ userInfo = Unbound
  /\ data = Unbound
  /\ LoggedIn("unset", "unset")

NextRun ==
  \/ Prompt
  \/ ExtractProfile
  \/ PostsRequest
  \/ PostsItem
  \/ GetFollowers
  \/ GetFollowing
  \/ WriteJson
  \/ MainAfterExtract
  \/ GenerateCsvReports
  \/ Summary
  \/ MainExcept
  \/ Interrupt

SpecRun == InitRun /\ [][NextRun]_vars

\* get_user_posts called once, as extract_user_data calls it (line 259),
\* under every setting of the two toggles.
InitPosts ==
  /\ pc = "posts"
  /\ target = <<"a">>
  /\ userInfo = Profile(<<"a">>)
  /\ data = Unbound
  /\ \E photos \in EnvValues, videos \in EnvValues : LoggedIn(photos, videos)

NextPosts ==
  \/ PostsRequest
  \/ PostsItem

SpecPosts == InitPosts /\ [][NextPosts]_vars

\* The results generate_csv_reports may be handed: each category missing or
\* a list of records.
CsvData ==
  UNION { [S -> { RelReturn(a) : a \in Answers(RelLists) }] :
            S \in SUBSET { Categories[i] : i \in DOMAIN Categories } }

\* generate_csv_reports called up to MaxCalls times with one result.
InitCsv ==
  /\ pc = "csv"
  /\ target = <<"a">>
  /\ userInfo = Unbound
  /\ data \in CsvData
  /\ LoggedIn("unset", "unset")

CallAgain ==
  /\ pc = "csv_returned"
  /\ csvCalls < MaxCalls
  /\ pc' = "csv"
  /\ UNCHANGED << console, envVars, loginVars, target, postsVars, extractVars,
                  csvVars, summary >>

NextCsv ==
  \/ GenerateCsvReports
  \/ CallAgain

SpecCsv == InitCsv /\ [][NextCsv]_vars

\* ------------------------------------------------------------------ claims
FailedToExtract == "Failed to extract data. Check logs for details."

Interrupted == "Extraction interrupted by user."

Completed == "Data extraction completed"

Traceback == "Traceback: KeyboardInterrupt"

CategorySet == { Categories[i] : i \in DOMAIN Categories }

\* C1: once get_user_info has returned absent, extract_user_data's result is
\* empty, no posts / followers / following fetch is made, nothing is written
\* (no JSON document, no media file, no CSV file, no generate_csv_reports
\* call), and what main() prints when it ends is the failure message (or the
\* interruption message, when an interrupt arrived before it).
C1_ProfileAbsentAborts ==
  Falsy(userInfo) =>
    /\ pc \in {"extract_returned", "KeyboardInterrupt", "done"}
    /\ Falsy(data)
    /\ stageLog = << >>
    /\ downloads = {} /\ mediaFiles = {}
    /\ jsonWrites = 0 /\ jsonFile = NoFile
    /\ csvCalls = 0 /\ csvFiles = NoFiles
    /\ ~summary.printed
    /\ pc = "done" => console \in {FailedToExtract, Interrupted}

C1_Witness ==
  /\ Falsy(userInfo)
  /\ pc = "done"
  /\ console = FailedToExtract
  /\ jsonFile = NoFile

\* The Posts get_user_posts has built so far have this at every step.
LocalFileIffDownloaded(posts) ==
  \A i \in DOMAIN posts :
    /\ "local_file" \in DOMAIN posts[i]
         <=> \E d \in downloads : d.id = posts[i].id /\ d.ok
    /\ "local_file" \in DOMAIN posts[i] =>
         [id |-> posts[i].id, ext |-> posts[i].local_file, state |-> "complete"]
           \in mediaFiles

\* C2: under every setting of the toggles and every media type, a Post has
\* the local_file key if and only if a download_media call for its item
\* returned True, the file it names is then a completely written one, and no
\* Post names a file whose download failed.
C2_LocalFileIffDownloaded ==
  /\ LocalFileIffDownloaded(postsData)
  /\ LocalFileIffDownloaded(postsResult)
  /\ \A f \in mediaFiles : f.state = "partial" =>
       \A i \in DOMAIN postsData :
         ~(postsData[i].id = f.id /\ "local_file" \in DOMAIN postsData[i])

C2_Witness ==
  /\ pc = "followers"
  /\ \E i \in DOMAIN postsResult : "local_file" \in DOMAIN postsResult[i]
  /\ \E i \in DOMAIN postsResult :
       /\ "local_file" \notin DOMAIN postsResult[i]
       /\ \E f \in mediaFiles : f.id = postsResult[i].id /\ f.state = "partial"
       /\ \E d \in downloads : d.id = postsResult[i].id /\ ~d.ok

\* The session file was valid when login() started: it is valid and login()
\* has not written it.
SessionValidFromStart == sessionFile = "valid" /\ sessionWrites = 0

\* C3: with a session file that exists and is valid, login() makes exactly
\* one client.login call, returns True from the session path without reaching
\* the fresh login, and does not write the session file; the session file is
\* written only by a fresh login whose authentication succeeded.
C3_SessionReuse ==
  /\ SessionValidFromStart /\ pc # "login" /\ console # Traceback =>
       /\ authCalls = 1
       /\ loginResult
       /\ loginPath = "session"
       /\ freshAuth = "none"
  /\ SessionValidFromStart => pc # "login_fresh"
  /\ sessionWrites > 0 => loginPath = "fresh" /\ freshAuth = "ok"
  /\ sessionWrites <= 1

C3_Witness ==
  /\ SessionValidFromStart
  /\ pc = "prompt"
  /\ loginResult
  /\ authCalls = 1
  /\ loginPath = "session"

\* C4: when the fresh path's client.login succeeded, login() has persisted
\* the session and returns True; it returns False only when that
\* authentication failed.
C4_FreshLoginSucceeds ==
  pc = "login_returned" /\ loginPath = "fresh" =>
    /\ freshAuth = "ok" => loginResult /\ sessionWrites = 1
    /\ ~loginResult => freshAuth # "ok"

\* The list a stage hands extract_user_data when the client's call returned.
FullPosts(posts) ==
  /\ Len(posts) = Len(medias)
  /\ \A i \in DOMAIN posts :
       posts[i].id = medias[i].id /\ posts[i].media_type = medias[i].media_type

FullRel(list, stage) ==
  /\ Len(list) = Len(clientRel[stage].items)
  /\ \A i \in DOMAIN list : list[i].pk = clientRel[stage].items[i].pk

\* C5: with the profile fetched, whatever stages fail, the stages are called
\* in the order posts, followers, following; when extract_user_data returns,
\* each failed stage's list is empty and each other stage's list is the
\* client's full sequence, the JSON document has been written exactly once,
\* after the three stages, and holds the returned result, which is not empty.
C5_StagesDegrade ==
  /\ \A i \in DOMAIN stageLog : stageLog[i] = Categories[i]
  /\ Len(stageLog) <= Len(Categories)
  /\ jsonWrites > 0 => stageLog = Categories
  /\ jsonWrites <= 1
  /\ pc = "extract_returned" /\ ~Falsy(userInfo) =>
       /\ ~Falsy(data)
       /\ stageLog = Categories
       /\ data["user_info"] = userInfo
       /\ IF "posts" \in stageFailed THEN data["posts"] = << >>
                                     ELSE FullPosts(data["posts"])
       /\ \A stage \in {"followers", "following"} :
            IF stage \in stageFailed THEN data[stage] = << >>
                                     ELSE FullRel(data[stage], stage)
       /\ jsonWrites = 1
       /\ jsonFile.state = "complete"
       /\ JsonLoad(jsonFile.content) = data

C5_Witness ==
  /\ pc = "extract_returned"
  /\ ~Falsy(userInfo)
  /\ stageFailed = {"posts", "following"}
  /\ Len(data["followers"]) = 2
  /\ data["posts"] = << >>
  /\ jsonWrites = 1

\* C6: an interrupt, wherever it arrives, ends main() with the interruption
\* message, and every file written by then is complete.
C6_InterruptCaught ==
  /\ console # Traceback
  /\ pc = "done" /\ console = Interrupted =>
       /\ jsonFile.state # "truncated"
       /\ \A c \in CategorySet : csvFiles[c].state # "truncated"
       /\ \A f \in mediaFiles : f.state # "partial"

\* C7: generate_csv_reports writes no file for a category whose list is
\* empty or missing; no write failure leaves the call as an exception; and a
\* second call with the same result that meets the same write outcomes
\* leaves every file as the call before left it.
C7_CsvSkipSafeIdempotent ==
  /\ \A c \in CategorySet : ~Truthy(data, c) =>
       /\ csvFiles[c] = NoFile
       /\ \A i \in DOMAIN csvWrites : csvWrites[i].cat # c
  /\ pc # "Exception"
  /\ pc = "KeyboardInterrupt" =>
       csvWrites # << >> /\ csvWrites[Len(csvWrites)].outcome = "interrupt"
  /\ pc = "csv_returned" /\ prevCall.called /\ csvWrites = prevCall.writes =>
       csvFiles = prevCall.files

C7_Witness ==
  /\ pc = "csv_returned"
  /\ csvCalls = 2
  /\ prevCall.called
  /\ csvWrites = prevCall.writes
  /\ Len(csvWrites) = 2
  /\ csvWrites[2].outcome = "write_error"
  /\ csvFiles["posts"].state = "complete"
  /\ \E c \in CategorySet : ~Truthy(data, c) /\ csvFiles[c] = NoFile

\* C8: when get_user_posts has returned, its value is the empty sequence if
\* any step failed, whatever the loop had built, and otherwise one Post per
\* media item of the client's answer, in the client's order; a failed step
\* never leaves the function as an exception.
C8_PostsAllOrNothing ==
  /\ pc = "followers" =>
       IF postsFailed THEN postsResult = << >> ELSE FullPosts(postsResult)
  /\ postsFailed => pc = "followers"
  /\ pc # "Exception"

C8_Witness ==
  /\ pc = "followers"
  /\ postsFailed
  /\ Len(postsData) >= 1
  /\ postsResult = << >>

\* C9: generate_csv_reports starts only with the JSON document completely
\* written; whatever fails while it runs, the document stays as written and
\* holds the in-memory result, the failure does not reach main(), and the
\* summary main() prints reports completion with the counts of the result,
\* which are the lengths of the lists in the document.
C9_CsvFailureIsolated ==
  /\ pc = "csv" \/ csvCalls > 0 =>
       /\ jsonFile.state = "complete"
       /\ jsonWrites = 1
       /\ JsonLoad(jsonFile.content) = data
  /\ csvCalls > 0 => pc \in {"csv_returned", "KeyboardInterrupt", "done"}
  /\ csvCalls > 0 /\ pc = "done" /\ console # Interrupted =>
       /\ console = Completed
       /\ summary.printed
  /\ summary.printed =>
       /\ csvCalls = 1
       /\ \A c \in CategorySet :
            summary[c] = Len(JsonLoad(jsonFile.content)[c])

C9_Witness ==
  /\ pc = "done"
  /\ summary.printed
  /\ console = Completed
  /\ csvWrites # << >>
  /\ csvWrites[Len(csvWrites)].outcome = "write_error"
  /\ summary.posts = 2
  /\ summary.followers = 1

\* The position of a category in the fixed order.
CatIndex(c) == CHOOSE i \in DOMAIN Categories : Categories[i] = c

\* C10: generate_csv_reports takes the categories in the order posts,
\* followers, following; when a write fails, the files written before it
\* stay written, no later category is written (its file is as the call found
\* it) even when its list is not empty, and the call returns normally.
C10_CsvSingleFailureDomain ==
  /\ \A i, j \in DOMAIN csvWrites :
       i < j => CatIndex(csvWrites[i].cat) < CatIndex(csvWrites[j].cat)
  /\ \A i \in DOMAIN csvWrites :
       /\ i < Len(csvWrites) => csvWrites[i].outcome = "ok"
       /\ csvWrites[i].outcome = "ok" =>
            csvFiles[csvWrites[i].cat] =
              [state |-> "complete", content |-> ToCsv(data[csvWrites[i].cat])]
  /\ csvWrites # << >> /\ csvWrites[Len(csvWrites)].outcome # "ok" =>
       /\ \A c \in CategorySet :
            CatIndex(c) > CatIndex(csvWrites[Len(csvWrites)].cat) =>
              csvFiles[c] = prevCall.files[c]
       /\ csvWrites[Len(csvWrites)].outcome \in WriteOutcomes =>
            pc \notin {"Exception", "KeyboardInterrupt"}
  /\ pc = "csv_returned" /\ (csvWrites = << >> \/ csvWrites[Len(csvWrites)].outcome = "ok") =>
       \A c \in CategorySet :
         Truthy(data, c) => \E i \in DOMAIN csvWrites : csvWrites[i].cat = c

C10_Witness ==
  /\ pc = "csv_returned"
  /\ csvCalls = 1
  /\ Len(csvWrites) = 2
  /\ csvWrites[2].cat = "followers"
  /\ csvWrites[2].outcome = "write_error"
  /\ csvFiles["posts"].state = "complete"
  /\ Truthy(data, "following")
  /\ csvFiles["following"] = NoFile

====
